---- MODULE Spec2Model ----
(***************************************************************************)
(* A model of dmfrbloom's BloomFilter (src/dmfrbloom/bloomfilter.py): two  *)
(* filter objects "f" and "g", one file on disk, and the operations        *)
(* __init__, add, lookup, save and load.                                   *)
(*                                                                         *)
(* Numbers.  fp_rate is carried as an integer number of percent, and       *)
(* math.log is a table of natural logarithms in millionths over the        *)
(* percentages the model draws; int() truncates toward zero.  A byte is an *)
(* integer 0..255 and a buffer (bytearray / bytes) a sequence of bytes.    *)
(* A Python exception is the string naming it in the exc field of a        *)
(* result; "none" means the call returned.                                 *)
(***************************************************************************)
EXTENDS Integers, Sequences, FiniteSets, TLC

\* ------------------------------------------------------------------ bounds

\* expected_items is drawn from MinExpected .. MaxExpected
MaxExpected == 2

MinExpected == 0 - 2

\* ---------------------------------------------------------------- inputs

FilterIds == {"f", "g"}

\* An element is <<python type, its str()>>: add and lookup see only str().
Elements == {<<"str", "a">>, <<"int", "7">>}

NoElement == <<"none", "">>

\* fp_rate values of the sizing runs, in percent: -0.5, 0, 0.03, 0.25, 0.5,
\* 0.9, 1.0, 2.0
WideFpRates == {0 - 50, 0, 3, 25, 50, 90, 100, 200}

\* fp_rate values used when the filters are then operated on
FpRates == {3, 50}

Expecteds == 1 .. MaxExpected

WideExpecteds == MinExpected .. MaxExpected

\* ------------------------------------------------------------ arithmetic

Abs(a) == IF a < 0 THEN 0 - a ELSE a

\* int(a / b) for b # 0: Python's int() of a float truncates toward zero
TruncDiv(a, b) ==
  LET q == Abs(a) \div Abs(b)
  IN  IF (a < 0) = (b < 0) THEN q ELSE 0 - q

\* math.ceil(a / 8)
ceil8(a) == 0 - ((0 - a) \div 8)

\* Python's a % b (b # 0): the result has the sign of b
PyMod(a, b) == IF b > 0 THEN a % b ELSE 0 - ((0 - a) % (0 - b))

\* C's remainder, whose result has the sign of a
CRem(a, b) == IF a >= 0 THEN a % Abs(b) ELSE 0 - ((0 - a) % Abs(b))

Pow2(k) == CASE k = 0 -> 1 [] k = 1 -> 2 [] k = 2 -> 4 [] k = 3 -> 8
             [] k = 4 -> 16 [] k = 5 -> 32 [] k = 6 -> 64 [] k = 7 -> 128

\* bit k (0 = least significant) of a byte
BitOf(byte, k) == (byte \div Pow2(k)) % 2

\* byte | (1 << k)
OrBit(byte, k) == IF BitOf(byte, k) = 1 THEN byte ELSE byte + Pow2(k)

Zeros(n) == [i \in 1 .. n |-> 0]

\* ------------------------------------------------------------------ math

Micro == 1000000

\* math.log(2), in millionths
Ln2Micro == 693147

\* math.log(2) ** 2, in millionths
Ln2SqMicro == 480453

\* math.log(pct / 100) in millionths, for pct > 0
LnMicro(pct) ==
  CASE pct = 3 -> 0 - 3506558
    [] pct = 25 -> 0 - 1386294
    [] pct = 50 -> 0 - 693147
    [] pct = 90 -> 0 - 105361
    [] pct = 100 -> 0
    [] pct = 200 -> 693147

\* ------------------------------------------------------------------ hash

\* mmh3.hash(key, seed), MurmurHash3 x86 32-bit as a signed 32-bit integer,
\* for the keys of Elements and seeds 0 .. 7
Mmh3Table ==
  ("a" :> << 1009084850, 1485495528, 0 - 810024386, 1867108634,
             0 - 1911403394, 0 - 421461367, 1501267068, 0 - 304251353 >>)
  @@
  ("7" :> << 602572328, 0 - 409191789, 1711925321, 0 - 1167431322,
             0 - 1283803082, 463052825, 108554723, 859453796 >>)

hash(key, seed) == Mmh3Table[key][seed + 1]

\* str(element)
str(element) == element[2]

\* -------------------------------------------------------------- BitField

\* BitField(size): a zero-filled buffer of ceil(size / 8) bytes; bytearray()
\* of a negative count raises ValueError
BitField(size) ==
  IF ceil8(size) < 0
  THEN [exc |-> "ValueError", bitfield |-> <<>>]
  ELSE [exc |-> "none", bitfield |-> Zeros(ceil8(size))]

\* The byte a buffer of n bytes holds at Python index b, as a 1-based index;
\* 0 when b is out of range (IndexError).  A negative index counts from the
\* end.
ByteAt(n, b) ==
  IF b >= n \/ b < 0 - n THEN 0 ELSE IF b < 0 THEN b + n + 1 ELSE b + 1

\* filter.getbit(position): bit position % 8, least significant first, of
\* byte position // 8
getbit(f, position) ==
  LET k == ByteAt(Len(f.bitfield), position \div 8)
  IN  IF k = 0
      THEN [exc |-> "IndexError", ret |-> FALSE]
      ELSE [exc |-> "none", ret |-> BitOf(f.bitfield[k], position % 8) = 1]

\* filter.setbit(position): bitfield[position // 8] |= 1 << (position % 8).
\* The buffer that load installs is a bytes object, which cannot be assigned
\* to (TypeError).
setbit(f, position) ==
  LET k == ByteAt(Len(f.bitfield), position \div 8)
  IN  IF k = 0 THEN [exc |-> "IndexError", filter |-> f]
      ELSE IF ~f.mutable THEN [exc |-> "TypeError", filter |-> f]
      ELSE [exc |-> "none",
            filter |-> [f EXCEPT !.bitfield[k] = OrBit(@, position % 8)]]

\* ----------------------------------------------------------- BloomFilter

\* A filter object.  mutable tells a bytearray buffer from a bytes one.
NoFilter ==
  [alive |-> FALSE, size |-> 0, hashcount |-> 0, bitfield |-> <<>>,
   mutable |-> TRUE]

\* ideal_size(expected, fp_rate), for fp_rate > 0
ideal_size(expected, pct) ==
  TruncDiv(0 - (expected * LnMicro(pct)), Ln2SqMicro)

\* ideal_hashcount(expected) of a filter of the given size, expected # 0
ideal_hashcount(size, expected) ==
  TruncDiv(size * Ln2Micro, expected * Micro)

\* BloomFilter(expected_items, fp_rate): math.log raises ValueError for
\* fp_rate <= 0, the division by int(expected) raises ZeroDivisionError, and
\* BitField raises ValueError for a size below -7.
BloomFilter(expected, pct) ==
  IF pct <= 0 THEN [exc |-> "ValueError", filter |-> NoFilter]
  ELSE IF expected = 0 THEN [exc |-> "ZeroDivisionError", filter |-> NoFilter]
  ELSE
    LET size == ideal_size(expected, pct)
        hashcount == ideal_hashcount(size, expected)
        field == BitField(size)
    IN  IF field.exc # "none"
        THEN [exc |-> field.exc, filter |-> NoFilter]
        ELSE [exc |-> "none",
              filter |-> [alive |-> TRUE, size |-> size,
                          hashcount |-> hashcount,
                          bitfield |-> field.bitfield, mutable |-> TRUE]]

\* bitindex with a remainder that keeps the sign of the hash
bitindex_crem(f, element, seed) == CRem(hash(str(element), seed), f.size)

\* mmh3.hash(str(element), seed) % self.size, for size # 0
bitindex(f, element, seed) == PyMod(hash(str(element), seed), f.size)

RECURSIVE add_loop(_, _, _, _)
\* The loop of add from seed on; calls are the positions handed to setbit.
\* An exception leaves the bits set so far.
add_loop(f, element, seed, calls) ==
  IF seed >= f.hashcount THEN [exc |-> "none", filter |-> f, calls |-> calls]
  ELSE IF f.size = 0
  THEN [exc |-> "ZeroDivisionError", filter |-> f, calls |-> calls]
  ELSE
    LET result == bitindex(f, element, seed)
        r == setbit(f, result)
    IN  IF r.exc # "none"
        THEN [exc |-> r.exc, filter |-> r.filter,
              calls |-> Append(calls, result)]
        ELSE add_loop(r.filter, element, seed + 1, Append(calls, result))

\* add with range(1, hashcount): seed 0 is skipped
add_from_one(f, element) == add_loop(f, element, 1, <<>>)

\* add that keeps the position in self.size instead of a local
add_clobber(f, element) ==
  LET r == add_loop(f, element, 0, <<>>)
  IN  IF r.calls = <<>> THEN r
      ELSE [r EXCEPT !.filter.size = r.calls[Len(r.calls)]]

add(f, element) == add_loop(f, element, 0, <<>>)

RECURSIVE lookup_loop(_, _, _, _)
\* The loop of lookup from seed on; calls are the positions handed to getbit.
lookup_loop(f, element, seed, calls) ==
  IF seed >= f.hashcount THEN [exc |-> "none", ret |-> "True", calls |-> calls]
  ELSE IF f.size = 0
  THEN [exc |-> "ZeroDivisionError", ret |-> "", calls |-> calls]
  ELSE
    LET result == bitindex(f, element, seed)
        r == getbit(f, result)
    IN  IF r.exc # "none"
        THEN [exc |-> r.exc, ret |-> "", calls |-> Append(calls, result)]
        ELSE IF r.ret = FALSE
        THEN [exc |-> "none", ret |-> "False", calls |-> Append(calls, result)]
        ELSE lookup_loop(f, element, seed + 1, Append(calls, result))

\* lookup that tests the last seed only
lookup_last(f, element) ==
  lookup_loop(f, element, IF f.hashcount > 0 THEN f.hashcount - 1 ELSE 0, <<>>)

\* lookup that answers False when the loop body never ran
lookup_default_false(f, element) ==
  IF f.hashcount <= 0
  THEN [exc |-> "none", ret |-> "False", calls |-> <<>>]
  ELSE lookup_loop(f, element, 0, <<>>)

lookup(f, element) == lookup_loop(f, element, 0, <<>>)

\* the bytesize property
bytesize(f) == ceil8(f.size)

\* ----------------------------------------------------------- persistence

HeaderField == 16

RECURSIVE to_bytes(_, _)
\* v.to_bytes(n, byteorder="little"), for v >= 0 (values of the model stay
\* far below 2 ^ 128)
to_bytes(v, n) ==
  IF n = 0 THEN <<>> ELSE <<v % 256>> \o to_bytes(v \div 256, n - 1)

RECURSIVE from_bytes(_)
\* int.from_bytes(s, byteorder="little"); 0 for the empty string
from_bytes(s) ==
  IF s = <<>> THEN 0 ELSE s[1] + 256 * from_bytes(Tail(s))

Min(a, b) == IF a < b THEN a ELSE b

\* what read(n) returns from data, and what it leaves unread
ReadHead(data, n) == SubSeq(data, 1, Min(n, Len(data)))

ReadRest(data, n) == SubSeq(data, Min(n, Len(data)) + 1, Len(data))

NoFile == [exists |-> FALSE, data |-> <<>>]

\* save that writes hashcount before size
save_swapped(f) ==
  [exc |-> "none",
   file |-> [exists |-> TRUE,
             data |-> to_bytes(f.hashcount, HeaderField)
                      \o to_bytes(f.size, HeaderField)
                      \o f.bitfield]]

\* save(path): open(path, "wb") truncates the file, then size, hashcount and
\* the buffer are written in turn.  to_bytes of a negative integer raises
\* OverflowError and leaves what was written before it.
save(f) ==
  IF f.size < 0
  THEN [exc |-> "OverflowError", file |-> [exists |-> TRUE, data |-> <<>>]]
  ELSE IF f.hashcount < 0
  THEN [exc |-> "OverflowError",
        file |-> [exists |-> TRUE, data |-> to_bytes(f.size, HeaderField)]]
  ELSE [exc |-> "none",
        file |-> [exists |-> TRUE,
                  data |-> to_bytes(f.size, HeaderField)
                           \o to_bytes(f.hashcount, HeaderField)
                           \o f.bitfield]]

\* load(path): open raises FileNotFoundError (an IOError) when there is no
\* file; otherwise the three fields are overwritten from the file as read.
load(f, fl) ==
  IF ~fl.exists THEN [exc |-> "FileNotFoundError", filter |-> f]
  ELSE
    LET rest == ReadRest(fl.data, HeaderField)
    IN  [exc |-> "none",
         filter |-> [f EXCEPT
            !.size = from_bytes(ReadHead(fl.data, HeaderField)),
            !.hashcount = from_bytes(ReadHead(rest, HeaderField)),
            !.bitfield = ReadRest(rest, HeaderField),
            !.mutable = FALSE]]

\* ------------------------------------------------------------------ state

VARIABLES
  flt,     \* flt[i]: the filter object i (alive once constructed)
  file,    \* the file at the one path save and load use
  added,   \* added[i]: the elements add has returned for on filter i, kept
           \* for as long as no load has touched i
  saved,   \* who last wrote the file in full by save, and the filter as it
           \* was then
  last     \* the last call: what it was given and what came of it

vars == <<flt, file, added, saved, last>>

NoCall ==
  [op |-> "none", id |-> "f", elem |-> NoElement, expected |-> 0, pct |-> 0,
   exc |-> "none", ret |-> "", calls |-> <<>>]

NotSaved == [valid |-> FALSE, id |-> "f", filter |-> NoFilter]

Header(size, hashcount) ==
  to_bytes(size, HeaderField) \o to_bytes(hashcount, HeaderField)

\* Files that something other than save put at the path: an empty file, a
\* file of size zero with a hashcount and a buffer, and a file whose buffer is
\* one byte where ceil(size / 8) is two.
Files ==
  { <<>>,
    Header(0, 1) \o <<255>>,
    Header(12, 2) \o <<4>> }

Init ==
  /\ flt = [i \in FilterIds |-> NoFilter]
  /\ file = NoFile
  /\ added = [i \in FilterIds |-> {}]
  /\ saved = NotSaved
  /\ last = NoCall

\* i = BloomFilter(expected, pct / 100)
Construct(i, expected, pct) ==
  /\ ~flt[i].alive
  /\ LET r == BloomFilter(expected, pct)
     IN  /\ flt' = [flt EXCEPT ![i] = r.filter]
         /\ last' = [NoCall EXCEPT !.op = "init", !.id = i,
                       !.expected = expected, !.pct = pct, !.exc = r.exc]
  /\ added' = [added EXCEPT ![i] = {}]
  /\ UNCHANGED <<file, saved>>

\* i.add(element)
Add(i, element) ==
  /\ flt[i].alive
  /\ LET r == add(flt[i], element)
     IN  /\ flt' = [flt EXCEPT ![i] = r.filter]
         /\ added' = [added EXCEPT
                        ![i] = IF r.exc = "none" /\ flt[i].mutable
                               THEN @ \cup {element} ELSE @]
         /\ last' = [NoCall EXCEPT !.op = "add", !.id = i, !.elem = element,
                       !.exc = r.exc, !.calls = r.calls]
  /\ UNCHANGED <<file, saved>>

\* i.lookup(element)
Lookup(i, element) ==
  /\ flt[i].alive
  /\ LET r == lookup(flt[i], element)
     IN  last' = [NoCall EXCEPT !.op = "lookup", !.id = i, !.elem = element,
                    !.exc = r.exc, !.ret = r.ret, !.calls = r.calls]
  /\ UNCHANGED <<flt, file, added, saved>>

\* i.save(path)
Save(i) ==
  /\ flt[i].alive
  /\ LET r == save(flt[i])
     IN  /\ file' = r.file
         /\ saved' = IF r.exc = "none"
                     THEN [valid |-> TRUE, id |-> i, filter |-> flt[i]]
                     ELSE NotSaved
         /\ last' = [NoCall EXCEPT !.op = "save", !.id = i, !.exc = r.exc]
  /\ UNCHANGED <<flt, added>>

\* i.load(path)
Load(i) ==
  /\ flt[i].alive
  /\ LET r == load(flt[i], file)
     IN  /\ flt' = [flt EXCEPT ![i] = r.filter]
         /\ added' = [added EXCEPT
                        ![i] = IF r.exc = "none" THEN {} ELSE @]
         /\ last' = [NoCall EXCEPT !.op = "load", !.id = i, !.exc = r.exc]
  /\ UNCHANGED <<file, saved>>

\* something else writes the file
PutFile(data) ==
  /\ file' = [exists |-> TRUE, data |-> data]
  /\ saved' = NotSaved
  /\ last' = [NoCall EXCEPT !.op = "putfile"]
  /\ UNCHANGED <<flt, added>>

Next ==
  \/ \E i \in FilterIds, expected \in Expecteds, pct \in FpRates :
       Construct(i, expected, pct)
  \/ \E i \in FilterIds, element \in Elements : Add(i, element)
  \/ \E i \in FilterIds, element \in Elements : Lookup(i, element)
  \/ \E i \in FilterIds : Save(i)
  \/ \E i \in FilterIds : Load(i)
  \/ \E data \in Files : PutFile(data)

Spec == Init /\ [][Next]_vars

\* Construction alone, over the wide range of parameters
NextSizing ==
  \E i \in FilterIds, expected \in WideExpecteds, pct \in WideFpRates :
    Construct(i, expected, pct)

SpecSizing == Init /\ [][NextSizing]_vars

\* ----------------------------------------------------------------- claims

\* What the claims say of a filter's bits, stated without the loops of add
\* and lookup.

\* position lies in the buffer
InBuffer(f, position) ==
  position >= 0 /\ position < 8 * Len(f.bitfield)

\* the bit at position exists and is 1
BitIsSet(f, position) ==
  /\ InBuffer(f, position)
  /\ BitOf(f.bitfield[(position \div 8) + 1], position % 8) = 1

\* hash(str(element), seed) mod size, for size >= 1
Position(f, element, seed) == hash(str(element), seed) % f.size

Seeds(f) == 0 .. (f.hashcount - 1)

\* every one of the hashcount bits of element is set
AllBitsSet(f, element) ==
  \A seed \in Seeds(f) :
    f.size >= 1 /\ BitIsSet(f, Position(f, element, seed))

\* the seeds whose bit is not set
UnsetSeeds(f, element) ==
  {seed \in Seeds(f) : ~BitIsSet(f, Position(f, element, seed))}

FirstOf(S) == CHOOSE x \in S : \A y \in S : x <= y

\* C1: no false negatives.  On a filter that no load has touched, every
\* element add has returned for is found by lookup: lookup returns True,
\* without an exception.
NoFalseNegatives ==
  \A i \in FilterIds :
    flt[i].alive /\ flt[i].mutable =>
      \A element \in added[i] :
        LET r == lookup(flt[i], element)
        IN  r.exc = "none" /\ r.ret = "True"

\* C1 witness: lookup has just returned True for an added element, on a
\* filter with hash rounds that holds both elements.
NoFalseNegativesWitness ==
  /\ last.op = "lookup"
  /\ last.ret = "True"
  /\ flt[last.id].mutable
  /\ flt[last.id].hashcount >= 1
  /\ added[last.id] = Elements
  /\ last.elem \in added[last.id]

\* C2: round trip.  When load returns from reading the file a save wrote, the
\* loading filter has the size, the hashcount and the buffer the saving
\* filter had, and lookup gives, for every element, what it gave on the
\* saving filter.
RoundTrip ==
  last.op = "load" /\ last.exc = "none" /\ saved.valid =>
    LET g == flt[last.id]
        f == saved.filter
    IN  /\ g.size = f.size
        /\ g.hashcount = f.hashcount
        /\ g.bitfield = f.bitfield
        /\ \A element \in Elements : lookup(g, element) = lookup(f, element)

\* C2 witness: g has loaded what the other filter saved after an add; the
\* buffer has bits set, and lookup tells the two elements apart.
RoundTripWitness ==
  /\ last.op = "load"
  /\ last.exc = "none"
  /\ saved.valid
  /\ saved.id # last.id
  /\ flt[last.id].hashcount >= 1
  /\ \E k \in 1 .. Len(flt[last.id].bitfield) : flt[last.id].bitfield[k] # 0
  /\ \E e1, e2 \in Elements :
       /\ lookup(flt[last.id], e1).ret = "True"
       /\ lookup(flt[last.id], e2).ret = "False"

\* C3: the buffer of every filter is exactly ceil(size / 8) bytes long.
BufferLengthInvariant ==
  \A i \in FilterIds :
    flt[i].alive => Len(flt[i].bitfield) = bytesize(flt[i])

\* C4: size and hashcount are fixed.  add changes nothing but the buffer of
\* its filter, lookup and save change no filter, and a step that changes the
\* size or the hashcount of a constructed filter is a load on that filter.
SizeHashcountFixed ==
  [][ /\ last'.op = "add" =>
           /\ flt' = [flt EXCEPT ![last'.id].bitfield = flt'[last'.id].bitfield]
           /\ file' = file
      /\ last'.op \in {"lookup", "save"} => flt' = flt
      /\ \A i \in FilterIds :
           ( /\ flt[i].alive
             /\ \/ flt'[i].size # flt[i].size
                \/ flt'[i].hashcount # flt[i].hashcount )
           => last'.op = "load" /\ last'.id = i
    ]_vars

\* C4 witness: a filter with hash rounds has been added to, looked up in
\* and saved, and still has the size and hashcount of its construction,
\* while the other filter has been loaded.
SizeHashcountFixedWitness ==
  /\ last.op = "save"
  /\ added[last.id] = Elements
  /\ flt[last.id].mutable
  /\ flt[last.id].size = ideal_size(2, 3)
  /\ flt[last.id].hashcount = ideal_hashcount(ideal_size(2, 3), 2)
  /\ \E j \in FilterIds \ {last.id} : flt[j].alive /\ ~flt[j].mutable

\* C5: a construction with expected_items >= 1 and 0 < fp_rate < 1 gives a
\* filter with size >= 1 and hashcount >= 1, or fails.  (Any exception is
\* taken for the failure.)
ConstructionNeverZeroHashcount ==
  ( /\ last.op = "init"
    /\ last.expected >= 1
    /\ last.pct > 0
    /\ last.pct < 100 )
  => \/ last.exc # "none"
     \/ /\ flt[last.id].alive
        /\ flt[last.id].size >= 1
        /\ flt[last.id].hashcount >= 1

\* C6: a construction with expected_items <= 0, fp_rate <= 0 or
\* fp_rate >= 1 fails and returns no filter.  (Any exception is taken for
\* the failure.)
InvalidParametersRejected ==
  ( /\ last.op = "init"
    /\ \/ last.expected <= 0
       \/ last.pct <= 0
       \/ last.pct >= 100 )
  => last.exc # "none" /\ ~flt[last.id].alive

\* the file is shorter than its header, or its size or hashcount is zero, or
\* the bytes after the header are not ceil(size / 8)
Malformed(data) ==
  \/ Len(data) < 2 * HeaderField
  \/ from_bytes(SubSeq(data, 1, HeaderField)) = 0
  \/ from_bytes(SubSeq(data, HeaderField + 1, 2 * HeaderField)) = 0
  \/ Len(data) - 2 * HeaderField
       # ceil8(from_bytes(SubSeq(data, 1, HeaderField)))

\* C7: load of a malformed file fails.  (Any exception is taken for the
\* failure.)
LoadRejectsMalformed ==
  ( /\ last.op = "load"
    /\ file.exists
    /\ Malformed(file.data) )
  => last.exc # "none"

\* C8: lookup changes no filter; it returns True exactly when every one of
\* the hashcount bits is set; and when some bit is not set, it stops at the
\* first such seed: with False when that position is in the buffer, with
\* IndexError when the buffer ends before it.
LookupIffAllBitsSet ==
  [][ last'.op = "lookup" =>
        LET f == flt[last'.id]
            U == UnsetSeeds(f, last'.elem)
        IN  /\ flt' = flt
            /\ (last'.exc = "none" /\ last'.ret = "True")
                 <=> AllBitsSet(f, last'.elem)
            /\ f.size >= 1 /\ U # {} =>
                 /\ Len(last'.calls) = FirstOf(U) + 1
                 /\ last'.calls[FirstOf(U) + 1]
                      = Position(f, last'.elem, FirstOf(U))
                 /\ IF InBuffer(f, Position(f, last'.elem, FirstOf(U)))
                    THEN last'.exc = "none" /\ last'.ret = "False"
                    ELSE last'.exc = "IndexError"
    ]_vars

\* C8 witness: lookup has returned False after finding the bit of seed 0
\* set and the bit of seed 1 not.
LookupIffAllBitsSetWitness ==
  /\ last.op = "lookup"
  /\ last.ret = "False"
  /\ Len(last.calls) = 2
  /\ BitIsSet(flt[last.id], last.calls[1])
  /\ ~BitIsSet(flt[last.id], last.calls[2])

\* C9 as stated: on a filter whose hashcount is 0, add changes no bit and
\* lookup returns False.
ZeroHashcountReportsNonMembership ==
  [][ flt[last'.id].alive /\ flt[last'.id].hashcount = 0 =>
        /\ last'.op = "add" => flt' = flt /\ last'.exc = "none"
        /\ last'.op = "lookup" => last'.exc = "none" /\ last'.ret = "False"
    ]_vars

\* C9 amended: on a filter whose hashcount is 0, add changes no bit and
\* lookup returns True for every element.
ZeroHashcountReportsMembership ==
  [][ flt[last'.id].alive /\ flt[last'.id].hashcount = 0 =>
        /\ last'.op = "add" => flt' = flt /\ last'.exc = "none"
        /\ last'.op = "lookup" => last'.exc = "none" /\ last'.ret = "True"
    ]_vars

\* C9 witness: one filter was constructed with hashcount 0 and has been
\* added to, the other has hashcount 0 from a load, and lookup has just
\* answered on one of them for an element that was never added to it.
ZeroHashcountWitness ==
  /\ \E i \in FilterIds :
       /\ flt[i].alive /\ flt[i].mutable
       /\ flt[i].hashcount = 0
       /\ added[i] # {}
  /\ \E j \in FilterIds :
       flt[j].alive /\ ~flt[j].mutable /\ flt[j].hashcount = 0
  /\ last.op = "lookup"
  /\ flt[last.id].hashcount = 0
  /\ last.elem \notin added[last.id]
  /\ last.ret = "True"

\* C10: on a filter with size >= 1, every position add hands to setbit and
\* lookup hands to getbit is at least 0 and below size.
IndicesInRange ==
  last.op \in {"add", "lookup"} /\ flt[last.id].size >= 1 =>
    \A k \in 1 .. Len(last.calls) :
      last.calls[k] >= 0 /\ last.calls[k] < flt[last.id].size

\* C10 witness: add has handed setbit a position that came from a negative
\* hash value.
IndicesInRangeWitness ==
  /\ last.op = "add"
  /\ flt[last.id].size >= 1
  /\ \E k \in 1 .. Len(last.calls) : hash(str(last.elem), k - 1) < 0

====
